---- MODULE Spec2Model ----
(***************************************************************************)
(* A model of kseto06/cpp-lstm: the HybridModel training engine            *)
(* (src/src/model/HybridModel.cpp) and its driver (src/src/train_model.cpp).*)
(*                                                                         *)
(* C++ vectors are modelled as TLA+ sequences; a C++ index k (0-based) is   *)
(* position k+1 of the sequence, and every vector access goes through      *)
(* InBounds/At so that the index the code computes is the index the model   *)
(* uses.  A matrix dictionary (std::map<std::string, Matrix>) is a function *)
(* from keys <<name, suffix>> (the string name + std::to_string(suffix)) to *)
(* matrix shapes <<rows, cols>>.                                            *)
(***************************************************************************)
EXTENDS Integers, Sequences, FiniteSets, TLC

\* ------------------------------------------------------------------ bounds
MaxExamples == 3       \* largest dataset the minibatch generator is given
MaxBatch == 3          \* largest batch_size
MaxTimesteps == 2      \* largest timestep count of a tensor
MaxRows == 2           \* largest batch of a tensor given to the reshape helpers
MaxFeatures == 2       \* largest feature count of a dataset

VARIABLES
    \* ---- locals of main (train_model.cpp)
    X_train,        \* dataset inputs, Tensor3D
    Y_train,        \* dataset targets, Matrix
    batch_size,     \* main's batch_size
    numUnits,       \* main's numUnits
    main_layer_types, \* main's layer_types
    main_layer_dims,  \* main's layer_dims
    minibatches,    \* result of generate_minibatches
    epoch,          \* main's i, the epoch counter
    batch_index,    \* 0-based position of the range-for over minibatches
    avg_loss,       \* the value last printed at line 66, <<numerator, denominator>>
    pc,             \* position of the caller
    status,         \* "running" | "threw" (C++ exception) | "crashed" (fault after UB)
    \* ---- arguments and results of the reshape helpers
    hidden_state,   \* Tensor3D given to reshape_last_timestep(const Tensor3D&)
    reshaped_matrix,\* its result
    reshaped_tensor,\* result of reshape_last_timestep(const Matrix&)
    \* ---- globals of namespace HybridModel (lines 40-69)
    layer_types,
    layer_dims,
    layer_params,
    cache,          \* cache.cache
    finalPrediction,
    accumulated_loss, \* a rational <<numerator, denominator>>
    x_train,        \* variantTensor set by init_data
    y_train,
    BATCH_SIZE,
    n_hidden,
    grads,          \* grads.grads
    Adam_params,
    t,
    t_used,         \* the values of t read by the bias corrections of the last optimize call
    \* ---- a local of back_prop, as its last call left it
    dA_matrix,      \* the seed gradient of line 361 and what it was computed from
    \* ---- history of back_prop's last call
    cache_reads     \* <<layer, layer of the cache entry read for it, the entry's tag>>

mainVars == <<X_train, Y_train, batch_size, numUnits, main_layer_types,
              main_layer_dims, minibatches, epoch, batch_index, avg_loss>>

reshapeVars == <<hidden_state, reshaped_matrix, reshaped_tensor>>

configVars == <<layer_types, layer_dims, x_train, y_train, BATCH_SIZE, n_hidden>>

trainVars == <<layer_params, cache, finalPrediction, accumulated_loss, grads,
               Adam_params, t, t_used, dA_matrix, cache_reads>>

vars == <<mainVars, reshapeVars, configVars, trainVars, pc, status>>

\* ----------------------------------------------------------- C++ vectors
Min(a, b) == IF a <= b THEN a ELSE b

\* v[k] is inside the vector
InBounds(v, k) == k >= 0 /\ k < Len(v)

\* v[k] for a 0-based C++ index k
At(v, k) == v[k + 1]

\* v.back()
Back(v) == v[Len(v)]

\* the value a variantTensor holds when no tensor was stored: an empty Matrix
NoTensor == [kind |-> "Matrix", val |-> <<>>]

\* a rational number <<numerator, denominator>>
Zero == <<0, 1>>

\* the shape <<rows, cols>> of an empty Matrix
EmptyShape == <<0, 0>>

\* an empty std::map
EmptyDict == [k \in {} |-> EmptyShape]

\* an activation matrix: its shape and where it was computed
EmptyMatrix == [shape |-> EmptyShape, from |-> <<"empty", 0>>]

\* back_prop's dA_matrix before any call: an empty Matrix computed from
\* nothing
NoSeed ==
    [shape |-> EmptyShape, prediction |-> [layer |-> 0, of |-> <<>>],
     target |-> <<>>, divisor |-> 0]

\* the namespace-scope variables as the program starts (lines 42-65;
\* scalars without initializer are zero-initialized statics), and
\* back_prop's local before any call
GlobalsAtStart ==
    /\ layer_types = <<>>
    /\ layer_dims = <<>>
    /\ layer_params = <<>>
    /\ cache = <<>>
    /\ finalPrediction = EmptyMatrix
    /\ accumulated_loss = Zero
    /\ x_train = NoTensor
    /\ y_train = << <<>> >>
    /\ BATCH_SIZE = 0
    /\ n_hidden = 0
    /\ grads = <<>>
    /\ Adam_params = <<>>
    /\ t = 0
    /\ t_used = {}
    /\ dA_matrix = NoSeed
    /\ cache_reads = {}

\* ------------------------------------------------------------- datasets
\* A dataset whose example j (0-based) is recognisable from its values
\* (every feature of example j, timestep s is 100*(j+1) + 10*s + f) and
\* whose target row j is <<j+1>>.
DatasetX(m, T, F) ==
    [j \in 1..m |-> [s \in 1..T |-> [f \in 1..F |-> 100 * j + 10 * s + f]]]

DatasetY(m) == [j \in 1..m |-> <<j>>]

\* the outcomes of std::shuffle over 0..m-1: every permutation
ShuffleOutcomes(m) ==
    {p \in [1..m -> 0..(m - 1)] : \A a, b \in 1..m : p[a] = p[b] => a = b}

\* ------------------------------------------------ generate_minibatches
\* lines 85-90: shuffled_X[i] = X[permutation[i]]
shuffled_X(X, permutation) ==
    [i \in 1..Len(permutation) |-> At(X, permutation[i])]

\* a plausible slip: the targets are left in dataset order
shuffled_Y_unshuffled(Y, permutation) ==
    [i \in 1..Len(permutation) |-> At(Y, i - 1)]

\* lines 86-90: shuffled_Y[i] = Y[permutation[i]]
shuffled_Y(Y, permutation) ==
    [i \in 1..Len(permutation) |-> At(Y, permutation[i])]

\* a plausible slip: the last index is excluded from the last chunk
ChunkEnd_short(k, bsz, m) == Min(k + bsz, m - 1)

\* line 94: int end = std::min(k + batch_size, m)
ChunkEnd(k, bsz, m) == Min(k + bsz, m)

\* lines 97-103: minibatch[i - k] = shuffled[i] for i in k .. end-1
Chunk(shuffled, k, end) ==
    [i \in 1..(IF end > k THEN end - k ELSE 0) |-> At(shuffled, k + i - 1)]

\* lines 92-106: for (k = 0; k < m; k += batch_size) emplace_back(chunk)
RECURSIVE MinibatchLoop(_, _, _, _, _)
MinibatchLoop(sX, sY, bsz, k, acc) ==
    IF k < Len(sX)
    THEN LET end == ChunkEnd(k, bsz, Len(sX))
         IN  MinibatchLoop(sX, sY, bsz, k + bsz,
                           Append(acc, <<Chunk(sX, k, end), Chunk(sY, k, end)>>))
    ELSE acc

\* lines 72-109 for a non-empty dataset, given the outcome of std::shuffle
generate_minibatches(X, Y, bsz, permutation) ==
    MinibatchLoop(shuffled_X(X, permutation), shuffled_Y(Y, permutation),
                  bsz, 0, <<>>)

\* ---------------------------------------------------------------------
\* Specification SpecMinibatch: one call of generate_minibatches on a
\* dataset of 0..MaxExamples examples.
\* ---------------------------------------------------------------------
InitMinibatch ==
    /\ \E m \in 0..MaxExamples, T \in 1..MaxTimesteps, F \in 1..MaxFeatures :
          /\ X_train = DatasetX(m, T, F)
          /\ Y_train = DatasetY(m)
    /\ batch_size \in 1..MaxBatch
    /\ minibatches = <<>>
    /\ numUnits = 0
    /\ main_layer_types = <<>>
    /\ main_layer_dims = <<>>
    /\ epoch = 0
    /\ batch_index = 0
    /\ avg_loss = Zero
    /\ pc = "generate"
    /\ status = "running"
    /\ hidden_state = <<>>
    /\ reshaped_matrix = <<>>
    /\ reshaped_tensor = <<>>
    /\ GlobalsAtStart

\* generate_minibatches(X_train, Y_train, batch_size, seed), m >= 1
GenerateMinibatchesCall ==
    /\ pc = "generate"
    /\ status = "running"
    /\ Len(X_train) > 0
    /\ \E permutation \in ShuffleOutcomes(Len(X_train)) :
          minibatches' = generate_minibatches(X_train, Y_train, batch_size, permutation)
    /\ pc' = "returned"
    /\ UNCHANGED <<X_train, Y_train, batch_size, numUnits, main_layer_types,
                   main_layer_dims, epoch, batch_index, avg_loss, status,
                   reshapeVars, configVars, trainVars>>

\* generate_minibatches on an empty dataset: line 85 evaluates X[0].size()
\* and X[0][0].size() on an empty vector (no check of m precedes it).  The
\* read is out of bounds: the call faults, or fails inside the allocation
\* sized by the value read, or goes on and returns no minibatch.
GenerateMinibatchesEmpty ==
    /\ pc = "generate"
    /\ status = "running"
    /\ Len(X_train) = 0
    /\ \/ status' = "crashed" /\ pc' = pc /\ minibatches' = minibatches
       \/ status' = "threw" /\ pc' = pc /\ minibatches' = minibatches
       \/ status' = status /\ pc' = "returned" /\ minibatches' = <<>>
    /\ UNCHANGED <<X_train, Y_train, batch_size, numUnits, main_layer_types,
                   main_layer_dims, epoch, batch_index, avg_loss,
                   reshapeVars, configVars, trainVars>>

NextMinibatch == GenerateMinibatchesCall \/ GenerateMinibatchesEmpty

SpecMinibatch == InitMinibatch /\ [][NextMinibatch]_vars

\* --------------------------------------------------- reshape_last_timestep
\* An outcome of a call: st is "ok" (returned val), "threw" (a C++ exception
\* left the function) or "crashed" (the process faulted after undefined
\* behaviour).
Ok(v) == [st |-> "ok", val |-> v]
Threw == [st |-> "threw", val |-> <<>>]
Crashed == [st |-> "crashed", val |-> <<>>]

\* a plausible slip: the first timestep is taken instead of the last
LastTimestep_first(example) == example[1]

\* line 186: hidden_state[i].back()
LastTimestep(example) == Back(example)

\* lines 181-187: the loop of the Tensor3D -> Matrix conversion; it throws
\* at the first example whose timestep sequence is empty
ExtractLoop(hs) ==
    IF \E i \in 1..Len(hs) : Len(hs[i]) = 0
    THEN Threw
    ELSE Ok([i \in 1..Len(hs) |-> LastTimestep(hs[i])])

\* lines 175-189, reshape_last_timestep(const Tensor3D&).  Line 177 reads
\* hidden_state[0][0].size() before the loop: with no example, or with an
\* empty first example, that read is out of bounds; the build either faults
\* there or reads some size and goes on into the loop.
Reshape3Dto2D(hs) ==
    IF Len(hs) = 0 \/ Len(hs[1]) = 0
    THEN {Crashed, ExtractLoop(hs)}
    ELSE {ExtractLoop(hs)}

\* line 195: TIMESTEPS = std::get<Tensor3D>(x_train)[0].size()
TIMESTEPS(xt) == Len(At(xt.val, 0))

\* lines 196-203: reshaped_tensor[i][t] = hidden_state[i]
Broadcast(m2, steps) ==
    [i \in 1..Len(m2) |-> [s \in 1..steps |-> m2[i]]]

\* lines 192-206, reshape_last_timestep(const Matrix&).  Line 194 reads
\* hidden_state[0].size() (out of bounds for an empty matrix); line 195
\* throws std::bad_variant_access when x_train holds a Matrix and reads out
\* of bounds when the stored tensor has no example.
Reshape2Dto3D(m2, xt) ==
    LET rest == IF xt.kind # "Tensor3D" THEN {Threw}
                ELSE IF Len(xt.val) = 0 THEN {Crashed, Ok(Broadcast(m2, 0))}
                ELSE {Ok(Broadcast(m2, TIMESTEPS(xt)))}
    IN  IF Len(m2) = 0 THEN {Crashed} \cup rest ELSE rest

\* ---------------------------------------------------------------------
\* Specification SpecReshape: Tensor3D -> Matrix -> Tensor3D on a tensor of
\* 0..MaxRows examples with 0..MaxTimesteps timesteps each, after init_data
\* stored a dataset (or before any init_data).
\* ---------------------------------------------------------------------
FeatureVectors == {<<0>>, <<1>>}

Examples == UNION {[1..T -> FeatureVectors] : T \in 0..MaxTimesteps}

Tensors == UNION {[1..B -> Examples] : B \in 0..MaxRows}

InitReshape ==
    /\ X_train = <<>>
    /\ Y_train = <<>>
    /\ batch_size = 1
    /\ numUnits = 0
    /\ main_layer_types = <<>>
    /\ main_layer_dims = <<>>
    /\ minibatches = <<>>
    /\ epoch = 0
    /\ batch_index = 0
    /\ avg_loss = Zero
    /\ pc = "to2d"
    /\ status = "running"
    /\ hidden_state \in Tensors
    /\ reshaped_matrix = <<>>
    /\ reshaped_tensor = <<>>
    /\ layer_types = <<>>
    /\ layer_dims = <<>>
    /\ layer_params = <<>>
    /\ cache = <<>>
    /\ finalPrediction = EmptyMatrix
    /\ accumulated_loss = Zero
    /\ \/ x_train = NoTensor /\ y_train = << <<>> >> /\ BATCH_SIZE = 0
       \/ \E T \in 1..MaxTimesteps :
             /\ x_train = [kind |-> "Tensor3D", val |-> DatasetX(1, T, 1)]
             /\ y_train = DatasetY(1)
             /\ BATCH_SIZE = 1
    /\ n_hidden = 0
    /\ grads = <<>>
    /\ Adam_params = <<>>
    /\ t = 0
    /\ t_used = {}
    /\ dA_matrix = NoSeed
    /\ cache_reads = {}

\* a = reshape_last_timestep(hidden_state), the Tensor3D overload
ReshapeTo2D ==
    /\ pc = "to2d"
    /\ status = "running"
    /\ \E r \in Reshape3Dto2D(hidden_state) :
          /\ status' = IF r.st = "ok" THEN status ELSE r.st
          /\ reshaped_matrix' = r.val
          /\ pc' = IF r.st = "ok" THEN "to3d" ELSE pc
    /\ UNCHANGED <<mainVars, hidden_state, reshaped_tensor, configVars, trainVars>>

\* reshape_last_timestep(a), the Matrix overload
ReshapeTo3D ==
    /\ pc = "to3d"
    /\ status = "running"
    /\ \E r \in Reshape2Dto3D(reshaped_matrix, x_train) :
          /\ status' = IF r.st = "ok" THEN status ELSE r.st
          /\ reshaped_tensor' = r.val
          /\ pc' = IF r.st = "ok" THEN "returned" ELSE pc
    /\ UNCHANGED <<mainVars, hidden_state, reshaped_matrix, configVars, trainVars>>

NextReshape == ReshapeTo2D \/ ReshapeTo3D

SpecReshape == InitReshape /\ [][NextReshape]_vars

\* ======================================================================
\* The training engine
\* ======================================================================
MaxTrainExamples == 2  \* largest dataset of a training run
MaxLayers == 4         \* most layers of an architecture
MaxWidth == 2          \* largest width of a hidden feed-forward layer
MaxEpochs == 2         \* epochs of a training run (1000 at train_model.cpp:36)

\* ------------------------------------------------------ dictionaries
\* std::map::operator[] on a missing key inserts an empty Matrix
Touch(d, key) ==
    IF key \in DOMAIN d THEN d ELSE [k \in DOMAIN d \cup {key} |-> IF k = key THEN EmptyShape ELSE d[k]]

\* d[key] = v
Put(d, key, v) == [k \in DOMAIN d \cup {key} |-> IF k = key THEN v ELSE d[k]]

\* the value of d[key] (an empty Matrix if the key was missing)
Get(d, key) == IF key \in DOMAIN d THEN d[key] ELSE EmptyShape

\* the parameter names of an LSTM layer (lines 435-462, 533-542) and of a
\* feed-forward layer (lines 465-468, 563-564)
LSTMWeightNames == {"Wf", "Wi", "Wc", "Wo"}
LSTMBiasNames == {"bf", "bi", "bc", "bo"}
LSTMParamNames == LSTMWeightNames \cup LSTMBiasNames \cup {"Wy", "by"}
MLPParamNames == {"W", "b"}

IsMLP(type) == type = "Relu" \/ type = "Linear"

ParamNames(type) ==
    IF type = "LSTM" THEN LSTMParamNames
    ELSE IF IsMLP(type) THEN MLPParamNames ELSE {}

\* "d" + name: the key of the gradient and of the moments of a parameter
D(name) == "d" \o name

\* LSTMNetwork::init_params(n_input, n_hidden, n_y, i): ten matrices keyed
\* name + std::to_string(i); gates (n_a, n_a + n_x), gate biases (n_a, 1),
\* output projection (n_y, n_a) and its bias (n_y, 1)
init_params(n_input, n_a, n_y, i) ==
    [k \in {<<nm, i>> : nm \in LSTMParamNames} |->
        IF k[1] \in LSTMWeightNames THEN <<n_a, n_a + n_input>>
        ELSE IF k[1] \in LSTMBiasNames THEN <<n_a, 1>>
        ELSE IF k[1] = "Wy" THEN <<n_y, n_a>>
        ELSE <<n_y, 1>>]

\* MLP::init_mlp_params(layer_dims, idx): W (n_out, n_in) and b (n_out, 1)
\* of layer idx+1, n_out = layer_dims[idx], n_in = layer_dims[idx-1]
init_mlp_params(dims, idx) ==
    [k \in {<<nm, idx + 1>> : nm \in MLPParamNames} |->
        IF k[1] = "W" THEN <<At(dims, idx), At(dims, idx - 1)>>
        ELSE <<At(dims, idx), 1>>]

\* lines 153-169: current_params of layer i
current_params(i) ==
    IF At(layer_types, i - 1) = "LSTM"
    THEN IF x_train.kind = "Tensor3D"
         THEN LET n_input == IF i = 1 THEN Len(At(At(x_train.val, 0), 0))
                             ELSE At(layer_dims, i - 2)
              IN  init_params(n_input, n_hidden, At(layer_dims, i - 1), i)
         ELSE EmptyDict
    ELSE IF IsMLP(At(layer_types, i - 1))
         THEN init_mlp_params(layer_dims, i - 1)
         ELSE EmptyDict

\* lines 152-171: for (i = 1; i <= layer_types.size(); i++) push_back
RECURSIVE InitNetworkLoop(_, _)
InitNetworkLoop(i, params) ==
    IF i <= Len(layer_types)
    THEN InitNetworkLoop(i + 1, Append(params, current_params(i)))
    ELSE params

\* lines 429-469: the moment dictionary (v and s alike) of layer i: one
\* zero matrix per parameter of the layer, keyed "d" + name + i, with the
\* parameter's shape
MomentsOf(i) ==
    [k \in {<<D(nm), i>> : nm \in ParamNames(At(layer_types, i - 1))} |->
        Get(At(layer_params, i - 1), <<CHOOSE nm \in ParamNames(At(layer_types, i - 1)) : D(nm) = k[1], i>>)]

\* lines 426-471: Adam_params[i-1] = {v, s}.  The matrices of v and s are
\* kept by their shapes; the third component stands for their values: the
\* number of optimizer steps whose gradients they hold (0: the zeros of
\* linalg::generateZeros)
init_Adam_params == [i \in 1..Len(layer_types) |-> <<MomentsOf(i), MomentsOf(i), 0>>]

\* ------------------------------------------------------- forward_prop
\* the shape <<batch, timesteps, features>> of a tensor value
ShapeOfTensor(x) ==
    IF Len(x) = 0 THEN <<0, 0, 0>>
    ELSE IF Len(x[1]) = 0 THEN <<Len(x), 0, 0>>
    ELSE <<Len(x), Len(x[1]), Len(x[1][1])>>

\* the shape <<rows, cols>> of a matrix value
ShapeOfMatrix(m2) == IF Len(m2) = 0 THEN EmptyShape ELSE <<Len(m2), Len(m2[1])>>

\* a tensor of a given shape (the engine's shapes do not depend on values)
TensorOfShape(sh) == [i \in 1..sh[1] |-> [s \in 1..sh[2] |-> [u \in 1..sh[3] |-> 0]]]

\* a Tensor3D produced by layer `layer` (0: none)
EmptyTensor == [shape |-> <<0, 0, 0>>, layer |-> 0]

\* reshape_last_timestep(new_hidden_state) on a hidden state known by its
\* shape: the outcomes of lines 175-189, as activation matrices
LastTimestepOf(hidden) ==
    {IF r.st = "ok"
     THEN Ok([shape |-> ShapeOfMatrix(r.val), from |-> <<"last_timestep", hidden.layer>>])
     ELSE r : r \in Reshape3Dto2D(TensorOfShape(hidden.shape))}

\* what a library routine given operands it was not written for may do:
\* throw, fault, or return `v`
Unspecified(v) == {Threw, Crashed, Ok(v)}

\* LSTMNetwork::lstm_forward(x, a0, parameters, i): the hidden states of all
\* timesteps (std::get<0>), the tensor handed to the next recurrent layer
\* (std::get<1>(std::get<3>)) and the cache bundle of layer i
lstm_forward(x, a0, parameters, i, stamp) ==
    LET Wf == Get(parameters, <<"Wf", i>>)
        Wy == Get(parameters, <<"Wy", i>>)
        n_a == Wf[1]
        fits == /\ x.shape[1] >= 1 /\ x.shape[2] >= 1
                /\ Wf[2] = n_a + x.shape[3]
                /\ a0.shape = <<x.shape[1], n_a>>
        out == [hidden |-> [shape |-> <<x.shape[1], x.shape[2], n_a>>, layer |-> i],
                xnext |-> [shape |-> <<x.shape[1], x.shape[2], Wy[1]>>, layer |-> i],
                entry |-> [tag |-> "LSTMCache", layer |-> i, of |-> stamp,
                           input |-> <<"tensor", x.layer>>, A |-> EmptyShape,
                           H |-> <<x.shape[1], x.shape[2], n_a>>]]
    IN  IF fits THEN {Ok(out)} ELSE Unspecified(out)

\* MLP::Dense(A_prev, parameters, activation, i, first): the activation
\* (one row per row of A_prev, n_out columns) and the cache dictionary
Dense(A_prev, parameters, i, stamp) ==
    LET W == Get(parameters, <<"W", i>>)
        fits == A_prev.shape[1] >= 1 /\ A_prev.shape[2] = W[2]
        a == [shape |-> IF A_prev.shape[1] >= 1 THEN <<A_prev.shape[1], W[1]>> ELSE EmptyShape,
              from |-> <<"Dense", i>>]
        out == [a |-> a,
                entry |-> [tag |-> "matrixDict", layer |-> i, of |-> stamp,
                           input |-> A_prev.from, A |-> a.shape,
                           H |-> <<0, 0, 0>>]]
    IN  IF fits THEN {Ok(out)} ELSE Unspecified(out)

\* lines 242, 254, 277, 288, 307: cache.cache[i] = ...
CacheSlot(i) == i

\* lines 241-245 (and 253-257, 276-280, 287-291, 306-310): replace when the
\* cache has one entry per layer, append otherwise.  A replacement past the
\* end of the vector is an out-of-bounds write: the build faults or the
\* write lands outside the vector's elements.
WriteCache(c, i, entry) ==
    IF Len(c) = Len(layer_types)
    THEN IF InBounds(c, CacheSlot(i))
         THEN {Ok([c EXCEPT ![CacheSlot(i) + 1] = entry])}
         ELSE {[st |-> "crashed", val |-> c], Ok(c)}
    ELSE {Ok(Append(c, entry))}

\* the locals of forward_prop
FwdLocals(c) ==
    [st |-> "ok", cache |-> c, a_out |-> EmptyMatrix, new_x_state |-> EmptyTensor,
     new_hidden_state |-> EmptyTensor, first_mlp_encountered |-> FALSE]

Fail(f, r) == [f EXCEPT !.st = r.st]

\* lines 235-260: an LSTM layer
FwdLSTM(i, f, x, stamp) ==
    LET inputs == IF i = 1
                  THEN {Ok([x |-> x, a0 |-> [shape |-> <<x.shape[1],
                                                          Get(At(layer_params, 0), <<"Wy", 1>>)[2]>>,
                                                from |-> <<"zeros", 0>>]])}
                  ELSE {IF r.st = "ok" THEN Ok([x |-> f.new_x_state, a0 |-> r.val]) ELSE r :
                            r \in LastTimestepOf(f.new_hidden_state)}
    IN  UNION {IF in.st # "ok" THEN {Fail(f, in)}
               ELSE UNION {IF r.st # "ok" THEN {Fail(f, r)}
                           ELSE {[f EXCEPT !.st = w.st, !.cache = w.val,
                                           !.new_x_state = r.val.xnext,
                                           !.new_hidden_state = r.val.hidden] :
                                    w \in WriteCache(f.cache, i, r.val.entry)} :
                             r \in lstm_forward(in.val.x, in.val.a0, At(layer_params, i - 1), i, stamp)} :
               in \in inputs}

\* line 263: layer_types[i-2] == "LSTM" && i != 1
ReluFollowsLSTM(i) == i # 1 /\ At(layer_types, i - 2) = "LSTM"

\* line 295: layer_types[i-1] == "LSTM" && i != 1
LinearFollowsLSTM(i) == At(layer_types, i - 1) = "LSTM" /\ i # 1

\* lines 261-311: a Relu or Linear layer (i >= 2: the first layer of a
\* supported architecture is an LSTM)
FwdMLP(i, f, stamp) ==
    LET reshape == IF At(layer_types, i - 1) = "Relu" THEN ReluFollowsLSTM(i)
                   ELSE LinearFollowsLSTM(i)
        inputs == IF reshape THEN LastTimestepOf(f.new_hidden_state) ELSE {Ok(f.a_out)}
    IN  UNION {IF in.st # "ok" THEN {Fail(f, in)}
               ELSE UNION {IF r.st # "ok" THEN {Fail(f, r)}
                           ELSE {[f EXCEPT !.st = w.st, !.cache = w.val,
                                           !.a_out = r.val.a,
                                           !.first_mlp_encountered = reshape] :
                                    w \in WriteCache(f.cache, i, r.val.entry)} :
                             r \in Dense(in.val, At(layer_params, i - 1), i, stamp)} :
               in \in inputs}

\* lines 232-312: for (i = 1; i <= layer_types.size(); i++)
RECURSIVE FwdLoop(_, _, _, _)
FwdLoop(i, f, x, stamp) ==
    IF f.st # "ok" \/ i > Len(layer_types) THEN {f}
    ELSE UNION {FwdLoop(i + 1, g, x, stamp) :
                   g \in IF At(layer_types, i - 1) = "LSTM" THEN FwdLSTM(i, f, x, stamp)
                         ELSE IF i >= 2 /\ IsMLP(At(layer_types, i - 1)) THEN FwdMLP(i, f, stamp)
                         ELSE {[f EXCEPT !.st = "crashed"]}}

\* lines 208-315, forward_prop(x): the final locals of every outcome
forward_prop(x, stamp) ==
    FwdLoop(1, FwdLocals(cache), [shape |-> ShapeOfTensor(x), layer |-> 0], stamp)

\* ------------------------------------------------------------- loss
RECURSIVE Gcd(_, _)
Gcd(a, b) == IF b = 0 THEN a ELSE Gcd(b, a % b)

\* a rational in lowest terms (denominator > 0, numerator >= 0 here)
Rat(n, d) == LET g == Gcd(n, d) IN IF g = 0 THEN <<n, d>> ELSE <<n \div g, d \div g>>

RatAdd(p, q) == Rat(p[1] * q[2] + q[1] * p[2], p[2] * q[2])

RatDivInt(p, k) == Rat(p[1], p[2] * k)

\* linalg::reshape: the rows of a matrix one after the other
RECURSIVE Flatten(_)
Flatten(m2) == IF m2 = <<>> THEN <<>> ELSE m2[1] \o Flatten(Tail(m2))

\* lines 118-121: loss += pow(pred[i] - target[i], 2)
RECURSIVE SquaredError(_, _, _)
SquaredError(pred, target, i) ==
    IF i > Len(pred) THEN 0
    ELSE (pred[i] - target[i]) * (pred[i] - target[i]) + SquaredError(pred, target, i + 1)

\* lines 113-123: MSE(pred, target)
MSE(pred, target) ==
    IF Len(pred) # Len(target) THEN Threw
    ELSE Ok(Rat(SquaredError(pred, target, 1), 2 * Len(pred)))

\* lines 319-321: a single row of BATCH_SIZE columns is transposed
Transposed(shape) ==
    IF shape[1] = 1 /\ shape[2] = BATCH_SIZE THEN <<shape[2], shape[1]>> ELSE shape

\* the values a prediction may take (the layers' arithmetic is not modelled)
PredictionValues == {0, 1}

\* lines 338-340: return_avg_loss()
return_avg_loss == RatDivInt(accumulated_loss, Len(x_train.val))

\* ------------------------------------------------------------ back_prop
\* linalg's elementwise binary operations (add, subtract, division) on
\* shapes a and b: the common shape; on operands of different shapes the
\* routine throws, faults, or returns a matrix shaped like one operand
Elementwise(a, b, lib) ==
    IF a = b THEN {Ok(a)} ELSE Unspecified(IF lib = "first" THEN a ELSE b)

\* the keys of the cache dictionary MLP::Dense returns for layer j that
\* back_prop reads: "A" + (j-1), holding the layer's activation
DenseCacheKey(entry) == <<"A", entry.layer - 1>>

\* LSTMNetwork::lstm_backprop(da, caches, layer): the gradients of the
\* cached layer's parameters keyed "d" + name + layer, and "da0" + layer
lstm_backprop(da, entry, layer) ==
    LET out == [tag |-> "gradientDict", layer |-> layer,
                cache |-> [layer |-> entry.layer, of |-> entry.of],
                dict |-> [k \in {<<D(nm), layer>> : nm \in LSTMParamNames} |->
                            Get(At(layer_params, entry.layer - 1),
                                <<CHOOSE nm \in LSTMParamNames : D(nm) = k[1], entry.layer>>)],
                da0 |-> [shape |-> entry.H, layer |-> layer],
                da |-> da]
    IN  IF da.shape = entry.H THEN {Ok(out)} ELSE Unspecified(out)

\* MLP::mlp_backward(a_in, dA, y, cache, layer, activation): "dW" + layer
\* and "db" + layer, shaped like the cached layer's W and b
mlp_backward(dA, entry, layer) ==
    LET out == [tag |-> "matrixDict", layer |-> layer,
                cache |-> [layer |-> entry.layer, of |-> entry.of],
                dict |-> [k \in {<<D(nm), layer>> : nm \in MLPParamNames} |->
                            Get(At(layer_params, entry.layer - 1),
                                <<CHOOSE nm \in MLPParamNames : D(nm) = k[1], entry.layer>>)],
                da0 |-> EmptyTensor,
                da |-> EmptyTensor]
    IN  IF dA = entry.A THEN {Ok(out)} ELSE Unspecified(out)

\* lines 393, 417: grads.grads[layer] = ...
GradSlot(layer) == layer

\* lines 392-396, 416-420: replace when there is one gradient per layer,
\* append otherwise
WriteGrads(g, layer, entry) ==
    IF Len(g) = Len(layer_types)
    THEN IF InBounds(g, GradSlot(layer))
         THEN {Ok([g EXCEPT ![GradSlot(layer) + 1] = entry])}
         ELSE {[st |-> "crashed", val |-> g], Ok(g)}
    ELSE {Ok(Append(g, entry))}

\* lines 376, 378: cache.cache[layer]
LSTMCacheSlot(layer) == layer

\* line 412: cache.cache[layer-1]
MLPCacheSlot(layer) == layer - 1

\* the locals of back_prop
BackLocals(dA, seed) ==
    [st |-> "ok", grads |-> grads, dA_matrix |-> dA, dA_tensor |-> EmptyTensor,
     seed |-> [seed EXCEPT !.shape = dA], reads |-> {}]

\* lines 376, 412: back_prop looks at a cache entry for `layer`
Read(b, layer, entry) ==
    [b EXCEPT !.reads = b.reads \cup {<<layer, entry.layer, entry.tag>>}]

\* lines 366-398: an LSTM layer below the last.  The reshape of line 373
\* is guarded by layer_types[layer-1] being Relu or Linear inside the
\* branch where it is LSTM (line 372), so it never runs.
BackLSTM(layer, b) ==
    LET slot == LSTMCacheSlot(layer)
        b0 == IF InBounds(cache, slot) THEN Read(b, layer, At(cache, slot)) ELSE b
    IN  IF ~InBounds(cache, slot) THEN {[b0 EXCEPT !.st = "crashed"]}
        ELSE IF At(cache, slot).tag # "LSTMCache" THEN {b0}
        ELSE UNION {IF r.st # "ok" THEN {Fail(b0, r)}
                    ELSE {[b0 EXCEPT !.st = w.st, !.grads = w.val, !.dA_tensor = r.val.da0] :
                             w \in WriteGrads(b.grads, layer, r.val)} :
                      r \in lstm_backprop(b.dA_tensor, At(cache, slot), layer)}

\* lines 400-421: a Relu or Linear layer below the last.  The reshape of
\* line 406 is guarded by layer_types[layer-1] == "LSTM" inside the branch
\* where it is Relu or Linear (line 405), so it never runs.
BackMLP(layer, b) ==
    LET slot == MLPCacheSlot(layer)
        b0 == IF InBounds(cache, slot) THEN Read(b, layer, At(cache, slot)) ELSE b
    IN  IF ~InBounds(cache, slot) THEN {[b0 EXCEPT !.st = "crashed"]}
        ELSE IF At(cache, slot).tag # "matrixDict" THEN {[b0 EXCEPT !.st = "threw"]}
        ELSE UNION {IF r.st # "ok" THEN {Fail(b0, r)}
                    ELSE {[b0 EXCEPT !.st = w.st, !.grads = w.val] :
                             w \in WriteGrads(b.grads, layer, r.val)} :
                      r \in mlp_backward(b.dA_matrix, At(cache, slot), layer)}

\* lines 367-369, 401-403: if (layer == L) continue
SkipLayer(layer, L) == layer = L

\* lines 365-422: for (layer = L; layer >= 1; layer--)
RECURSIVE BackLoop(_, _)
BackLoop(layer, b) ==
    IF b.st # "ok" \/ layer < 1 THEN {b}
    ELSE IF SkipLayer(layer, Len(layer_types)) THEN BackLoop(layer - 1, b)
    ELSE UNION {BackLoop(layer - 1, g) :
                   g \in IF At(layer_types, layer - 1) = "LSTM" THEN BackLSTM(layer, b)
                         ELSE IF IsMLP(At(layer_types, layer - 1)) THEN BackMLP(layer, b)
                         ELSE {b}}

\* lines 345, 353-361: dA_matrix = (A - y_train) / m with A the value under
\* "A" + (L-1) of cache.cache[L-1] (an empty Matrix if the key is missing),
\* y_train the targets stored by init_data and m the example count of the
\* tensor stored by init_data
SeedOf(layer_cache) ==
    [shape |-> EmptyShape,
     prediction |-> IF DenseCacheKey(layer_cache) = <<"A", Len(layer_types) - 1>>
                    THEN [layer |-> layer_cache.layer, of |-> layer_cache.of]
                    ELSE NoSeed.prediction,
     target |-> y_train,
     divisor |-> Len(x_train.val)]

\* lines 342-423, back_prop(): the final locals of every outcome
back_prop(lib) ==
    LET L == Len(layer_types)
        a_in == Reshape3Dto2D(x_train.val)
        failed(st) == [BackLocals(EmptyShape, NoSeed) EXCEPT !.st = st]
        start == IF \A r \in a_in : r.st # "ok" THEN {failed("crashed")}
                 ELSE IF ~InBounds(cache, L - 1) THEN {failed("crashed")}
                 ELSE IF At(cache, L - 1).tag # "matrixDict" THEN {failed("threw")}
                 ELSE LET layer_cache == At(cache, L - 1)
                          dA == IF DenseCacheKey(layer_cache) = <<"A", L - 1>>
                                THEN layer_cache.A ELSE EmptyShape
                      IN  {IF r.st = "ok" THEN BackLocals(r.val, SeedOf(layer_cache))
                           ELSE failed(r.st) :
                              r \in Elementwise(dA, ShapeOfMatrix(y_train), lib)}
    IN  UNION {BackLoop(L, b) : b \in start}

\* ------------------------------------------------------------- optimize
\* the order of the statements of lines 485-494 and of lines 547-548
LSTMNamesInOrder == <<"Wf", "bf", "Wi", "bi", "Wc", "bc", "Wo", "bo", "Wy", "by">>
MLPNamesInOrder == <<"W", "b">>

NamesInOrder(type) ==
    IF type = "LSTM" THEN LSTMNamesInOrder
    ELSE IF IsMLP(type) THEN MLPNamesInOrder ELSE <<>>

\* lines 485-530, 547-560: std::to_string(l+1) in every moment and
\* gradient key
MomentSuffix(l) == l + 1

\* a plausible slip: the parameter written is the one keyed by the layer's
\* own number while the moments stay those of lines 477-478
ParamSuffix_own(l) == l

\* lines 533-542, 563-564: the parameter key is name + std::to_string(l+1)
ParamSuffix(l) == l + 1

\* lines 497, 521: 1 - pow(beta, t) with beta1 = 0.9 and beta2 = 0.999
\* (lines 66-67) is zero exactly when t is zero
BiasDenominatorIsZero(step) == step = 0

\* lines 477-478: Adam_params[l][0] and [1], copied.  Index l names the
\* entry of layer l+1; for the last layer it is past the end, and the
\* build faults or copies whatever lies there (here: two empty maps).
MomentsAt(l) ==
    IF InBounds(Adam_params, l) THEN {Ok(At(Adam_params, l))}
    ELSE {Crashed, Ok(<<EmptyDict, EmptyDict, 0>>)}

\* lines 484, 546: std::get<gradientDict>(grads.grads[l-1]).  A feed-forward
\* layer's gradients are a matrixDict, for which std::get throws
\* bad_variant_access; past the end the build faults, throws on a stray
\* variant index, or goes on with whatever lies there (here: an empty map).
GradMapAt(g, l) ==
    IF ~InBounds(g, l - 1) THEN {Crashed, Threw, Ok(EmptyDict)}
    ELSE IF At(g, l - 1).tag # "gradientDict" THEN {Threw}
    ELSE {Ok(At(g, l - 1).dict)}

\* the locals of one iteration of the loop of line 476, with the layer's
\* parameter dictionary and the gradient map the iteration writes through
OptLocals(mo, g, params, used) ==
    [st |-> "ok", v |-> mo[1], s |-> mo[2], v_corrected |-> EmptyDict,
     s_corrected |-> EmptyDict, grad_map |-> g, params |-> params, t_used |-> used]

\* one statement of lines 485-494 / 547-548 (v) or 509-518 / 555-556 (s):
\* m[key] = add(beta * m[key], (1 - beta) * grad_map[key])
MomentStep(w, which, key, lib) ==
    LET m == IF which = "v" THEN w.v ELSE w.s
        g == Touch(w.grad_map, key)
    IN  {IF r.st # "ok" THEN [w EXCEPT !.st = r.st, !.grad_map = g]
         ELSE IF which = "v" THEN [w EXCEPT !.v = Put(m, key, r.val), !.grad_map = g]
         ELSE [w EXCEPT !.s = Put(m, key, r.val), !.grad_map = g] :
            r \in Elementwise(Get(m, key), Get(g, key), lib)}

\* one statement of lines 497-506 / 551-552 (v) or 521-530 / 559-560 (s):
\* m_corrected[key] = m[key] / (1 - pow(beta, t))
CorrectionStep(w, which, key, l) ==
    IF which = "v"
    THEN {[w EXCEPT !.v = Touch(w.v, key),
                    !.v_corrected = Put(w.v_corrected, key, Get(w.v, key)),
                    !.t_used = w.t_used \cup {<<l, t>>}]}
    ELSE {[w EXCEPT !.s = Touch(w.s, key),
                    !.s_corrected = Put(w.s_corrected, key, Get(w.s, key)),
                    !.t_used = w.t_used \cup {<<l, t>>}]}

\* one statement of lines 533-542 / 563-564:
\* params[pkey] = subtract(params[pkey], division(lr * v_corrected[key],
\*                                     add(sqrt(s_corrected[key]), epsilon)))
\* The two arguments of subtract are evaluated in either order, so a
\* failing division may or may not follow the insertion of pkey.
UpdateStep(w, key, pkey, lib) ==
    LET vc == Touch(w.v_corrected, key)
        sc == Touch(w.s_corrected, key)
        touched == Touch(w.params, pkey)
        w1 == [w EXCEPT !.v_corrected = vc, !.s_corrected = sc]
    IN  UNION {IF q.st # "ok"
               THEN {[w1 EXCEPT !.st = q.st], [w1 EXCEPT !.st = q.st, !.params = touched]}
               ELSE {IF r.st # "ok" THEN [w1 EXCEPT !.st = r.st, !.params = touched]
                     ELSE [w1 EXCEPT !.params = Put(touched, pkey, r.val)] :
                        r \in Elementwise(Get(touched, pkey), q.val, lib)} :
                 q \in Elementwise(Get(vc, key), Get(sc, key), lib)}

\* the five groups of statements of a branch, in order
Stages == <<"v", "v_corrected", "s", "s_corrected", "update">>

\* the statements of one group over the layer's names, from the k-th on
RECURSIVE OptStage(_, _, _, _, _, _)
OptStage(stage, names, k, w, l, lib) ==
    IF w.st # "ok" \/ k > Len(names) THEN {w}
    ELSE LET key == <<D(names[k]), MomentSuffix(l)>>
             pkey == <<names[k], ParamSuffix(l)>>
             after == IF stage = "v" THEN MomentStep(w, "v", key, lib)
                      ELSE IF stage = "s" THEN MomentStep(w, "s", key, lib)
                      ELSE IF stage = "v_corrected" THEN CorrectionStep(w, "v", key, l)
                      ELSE IF stage = "s_corrected" THEN CorrectionStep(w, "s", key, l)
                      ELSE UpdateStep(w, key, pkey, lib)
         IN  UNION {OptStage(stage, names, k + 1, x, l, lib) : x \in after}

\* the groups from the j-th on
RECURSIVE OptStages(_, _, _, _, _)
OptStages(j, names, w, l, lib) ==
    IF w.st # "ok" \/ j > Len(Stages) THEN {w}
    ELSE UNION {OptStages(j + 1, names, x, l, lib) :
                   x \in OptStage(Stages[j], names, 1, w, l, lib)}

\* optimize's view of the globals it writes
OptGlobals == [st |-> "ok", layer_params |-> layer_params, grads |-> grads, t_used |-> {}]

\* lines 477-565: the body of the loop for layer l
OptLayer(l, o, lib) ==
    UNION {IF mo.st # "ok" THEN {[o EXCEPT !.st = mo.st]}
           ELSE UNION {IF g.st # "ok" THEN {[o EXCEPT !.st = g.st]}
                       ELSE {[o EXCEPT !.st = w.st,
                                       !.layer_params = [o.layer_params EXCEPT ![l] = w.params],
                                       !.grads = IF InBounds(o.grads, l - 1)
                                                 THEN [o.grads EXCEPT ![l] = [@ EXCEPT !.dict = w.grad_map]]
                                                 ELSE o.grads,
                                       !.t_used = w.t_used] :
                                w \in OptStages(1, NamesInOrder(At(layer_types, l - 1)),
                                                OptLocals(mo.val, g.val, At(o.layer_params, l - 1), o.t_used),
                                                l, lib)} :
                         g \in GradMapAt(o.grads, l)} :
             mo \in MomentsAt(l)}

\* lines 476-566: for (l = 1; l <= layer_types.size(); l++)
RECURSIVE OptLoop(_, _, _)
OptLoop(l, o, lib) ==
    IF o.st # "ok" \/ l > Len(layer_types) THEN {o}
    ELSE UNION {OptLoop(l + 1, x, lib) : x \in OptLayer(l, o, lib)}

\* lines 475-568, optimize(): the globals after every outcome (t += 1 of
\* line 567 is applied by the caller of this operator when st = "ok")
optimize(lib) == OptLoop(1, OptGlobals, lib)

\* --------------------------------------------------------- the driver
LSTMs(n) == [i \in 1..n |-> "LSTM"]

\* the supported architectures: LSTM layers, then Relu/Linear layers
Architectures ==
    UNION {{LSTMs(a) \o mlp : mlp \in [1..b -> {"Relu", "Linear"}]} :
             <<a, b>> \in {ab \in (1..MaxLayers) \X (1..MaxLayers) : ab[1] + ab[2] <= MaxLayers}}

\* layer_dims as train_model.cpp:17 builds it: an LSTM layer feeding an
\* LSTM layer has the input's feature count, the last LSTM has the hidden
\* width, hidden feed-forward layers have width w and the last layer the
\* target's width
DimsFor(types, F, units, w) ==
    [i \in 1..Len(types) |->
        IF types[i] = "LSTM"
        THEN IF i < Len(types) /\ types[i + 1] = "LSTM" THEN F ELSE units
        ELSE IF i = Len(types) THEN 1 ELSE w]

\* spec 8, end-to-end scenario: 4 examples, 3 timesteps, 2 features,
\* [LSTM(4), Linear(1)], batch size 4
Scenario ==
    [X |-> DatasetX(4, 3, 2), Y |-> DatasetY(4), batch |-> 4, units |-> 4,
     types |-> <<"LSTM", "Linear">>, dims |-> <<4, 1>>]

TrainingRuns ==
    {Scenario} \cup
    {[X |-> DatasetX(m, MaxTimesteps, MaxFeatures), Y |-> DatasetY(m),
      batch |-> b, units |-> 3, types |-> ty,
      dims |-> DimsFor(ty, MaxFeatures, 3, w)] :
        m \in 1..MaxTrainExamples, b \in 1..MaxTrainExamples,
        ty \in Architectures, w \in 1..MaxWidth}

Init ==
    /\ \E run \in TrainingRuns :
          /\ X_train = run.X
          /\ Y_train = run.Y
          /\ batch_size = run.batch
          /\ numUnits = run.units
          /\ main_layer_types = run.types
          /\ main_layer_dims = run.dims
    /\ minibatches = <<>>
    /\ epoch = 0
    /\ batch_index = 0
    /\ avg_loss = Zero
    /\ pc = "init_data"
    /\ status = "running"
    /\ hidden_state = <<>>
    /\ reshaped_matrix = <<>>
    /\ reshaped_tensor = <<>>
    /\ GlobalsAtStart

\* train_model.cpp:20, HybridModel.cpp:126-130
init_data ==
    /\ pc = "init_data"
    /\ x_train' = [kind |-> "Tensor3D", val |-> X_train]
    /\ y_train' = Y_train
    /\ BATCH_SIZE' = batch_size
    /\ pc' = "init_hidden_units"
    /\ UNCHANGED <<mainVars, reshapeVars, layer_types, layer_dims, n_hidden,
                   trainVars, status>>

\* train_model.cpp:21, HybridModel.cpp:139-141
init_hidden_units ==
    /\ pc = "init_hidden_units"
    /\ n_hidden' = numUnits
    /\ pc' = "init_layers"
    /\ UNCHANGED <<mainVars, reshapeVars, layer_types, layer_dims, x_train,
                   y_train, BATCH_SIZE, trainVars, status>>

\* train_model.cpp:24, HybridModel.cpp:133-136
init_layers ==
    /\ pc = "init_layers"
    /\ layer_types' = main_layer_types
    /\ layer_dims' = main_layer_dims
    /\ pc' = "initialize_network"
    /\ UNCHANGED <<mainVars, reshapeVars, x_train, y_train, BATCH_SIZE,
                   n_hidden, trainVars, status>>

\* train_model.cpp:27-30, HybridModel.cpp:149-172 (and init_learning_rate,
\* lines 144-146, which stores a scalar no shape depends on)
initialize_network ==
    /\ pc = "initialize_network"
    /\ layer_params' = InitNetworkLoop(1, layer_params)
    /\ pc' = "init_Adam"
    /\ UNCHANGED <<mainVars, reshapeVars, configVars, cache, finalPrediction,
                   accumulated_loss, grads, Adam_params, t, t_used, dA_matrix,
                   cache_reads, status>>

\* train_model.cpp:33, HybridModel.cpp:425-473
init_Adam ==
    /\ pc = "init_Adam"
    /\ Adam_params' = init_Adam_params
    /\ pc' = "generate"
    /\ UNCHANGED <<mainVars, reshapeVars, configVars, layer_params, cache,
                   finalPrediction, accumulated_loss, grads, t, t_used, dA_matrix,
                   cache_reads, status>>

\* train_model.cpp:39 with i < epochs (1000 there, MaxEpochs here), lines
\* 41-42: seed++ and generate_minibatches (the dataset is not empty here),
\* then the first iteration of the range-for of line 45
GenerateMinibatches ==
    /\ pc = "generate"
    /\ epoch < MaxEpochs
    /\ \E permutation \in ShuffleOutcomes(Len(X_train)) :
          minibatches' = generate_minibatches(X_train, Y_train, batch_size, permutation)
    /\ batch_index' = 0
    /\ pc' = "forward_prop"
    /\ UNCHANGED <<X_train, Y_train, batch_size, numUnits, main_layer_types,
                   main_layer_dims, epoch, avg_loss, reshapeVars, configVars,
                   trainVars, status>>

X_batch == At(minibatches, batch_index)[1]
Y_batch == At(minibatches, batch_index)[2]

\* train_model.cpp:50, HybridModel.cpp:208-315
ForwardProp ==
    /\ pc = "forward_prop"
    /\ \E f \in forward_prop(X_batch, <<epoch, batch_index>>) :
          /\ cache' = f.cache
          /\ finalPrediction' = IF f.st = "ok" THEN f.a_out ELSE finalPrediction
          /\ status' = IF f.st = "ok" THEN status ELSE f.st
          /\ pc' = IF f.st = "ok" THEN "loss" ELSE "stopped"
    /\ UNCHANGED <<mainVars, reshapeVars, configVars, layer_params,
                   accumulated_loss, grads, Adam_params, t, t_used, dA_matrix,
                   cache_reads>>

\* train_model.cpp:54, HybridModel.cpp:317-336
Loss ==
    /\ pc = "loss"
    /\ LET shape == Transposed(finalPrediction.shape)
           targets == Flatten(Y_batch)
       IN  /\ finalPrediction' = [finalPrediction EXCEPT !.shape = shape]
           /\ \E predictions \in [1..(shape[1] * shape[2]) -> PredictionValues] :
                 LET r == MSE(predictions, targets)
                 IN  /\ accumulated_loss' = IF r.st = "ok" THEN RatAdd(accumulated_loss, r.val)
                                            ELSE accumulated_loss
                     /\ status' = IF r.st = "ok" THEN status ELSE r.st
                     /\ pc' = IF r.st = "ok" THEN "back_prop" ELSE "stopped"
    /\ UNCHANGED <<mainVars, reshapeVars, configVars, layer_params, cache,
                   grads, Adam_params, t, t_used, dA_matrix, cache_reads>>

\* which operand's shape a tolerant linalg routine gives its result
LibraryBehaviours == {"first", "second"}

\* train_model.cpp:58, HybridModel.cpp:342-423
BackProp ==
    /\ pc = "back_prop"
    /\ \E lib \in LibraryBehaviours : \E b \in back_prop(lib) :
          /\ grads' = b.grads
          /\ dA_matrix' = IF b.st = "ok" THEN b.seed ELSE dA_matrix
          /\ cache_reads' = b.reads
          /\ status' = IF b.st = "ok" THEN status ELSE b.st
          /\ pc' = IF b.st = "ok" THEN "optimize" ELSE "stopped"
    /\ UNCHANGED <<mainVars, reshapeVars, configVars, layer_params, cache,
                   finalPrediction, accumulated_loss, Adam_params, t, t_used>>

\* train_model.cpp:62, HybridModel.cpp:475-568, and the step of the
\* range-for of train_model.cpp:45 that follows a normal return
Optimize ==
    /\ pc = "optimize"
    /\ \E lib \in LibraryBehaviours : \E o \in optimize(lib) :
          /\ layer_params' = o.layer_params
          /\ grads' = o.grads
          /\ t_used' = o.t_used
          /\ t' = IF o.st = "ok" THEN t + 1 ELSE t
          /\ status' = IF o.st = "ok" THEN status ELSE o.st
          /\ pc' = IF o.st # "ok" THEN "stopped"
                   ELSE IF batch_index + 1 < Len(minibatches) THEN "forward_prop"
                   ELSE "return_avg_loss"
          /\ batch_index' = IF o.st = "ok" /\ batch_index + 1 < Len(minibatches)
                            THEN batch_index + 1 ELSE batch_index
    /\ UNCHANGED <<X_train, Y_train, batch_size, numUnits, main_layer_types,
                   main_layer_dims, minibatches, epoch, avg_loss, reshapeVars,
                   configVars, cache, finalPrediction, accumulated_loss, Adam_params,
                   dA_matrix, cache_reads>>

\* train_model.cpp:66 and the i++ of line 39
ReturnAvgLoss ==
    /\ pc = "return_avg_loss"
    /\ avg_loss' = return_avg_loss
    /\ epoch' = epoch + 1
    /\ pc' = "generate"
    /\ UNCHANGED <<X_train, Y_train, batch_size, numUnits, main_layer_types,
                   main_layer_dims, minibatches, batch_index, reshapeVars,
                   configVars, trainVars, status>>

Next ==
    \/ init_data
    \/ init_hidden_units
    \/ init_layers
    \/ initialize_network
    \/ init_Adam
    \/ GenerateMinibatches
    \/ ForwardProp
    \/ Loss
    \/ BackProp
    \/ Optimize
    \/ ReturnAvgLoss

Spec == Init /\ [][Next]_vars

\* ======================================================================
\* Claims on generate_minibatches and the reshape helpers
\* ======================================================================
RECURSIVE FlatX(_)
FlatX(mbs) == IF mbs = <<>> THEN <<>> ELSE mbs[1][1] \o FlatX(Tail(mbs))

Occurrences(seq, x) == Cardinality({p \in 1..Len(seq) : seq[p] = x})

\* C6: for a non-empty dataset and any batch_size >= 1 the returned chunks
\* hold every dataset example exactly once; every chunk but the last has
\* batch_size examples, the last has between 1 and batch_size.
C6_Partition ==
    (pc = "returned" /\ Len(X_train) >= 1) =>
        /\ Len(FlatX(minibatches)) = Len(X_train)
        /\ \A j \in 1..Len(X_train) : Occurrences(FlatX(minibatches), X_train[j]) = 1
        /\ \A c \in 1..Len(minibatches) :
              /\ Len(minibatches[c][1]) = Len(minibatches[c][2])
              /\ Len(minibatches[c][1]) <= batch_size
              /\ Len(minibatches[c][1]) >= 1
              /\ c < Len(minibatches) => Len(minibatches[c][1]) = batch_size

\* C6 witness: three examples in chunks of two, the last chunk smaller
C6_Witness ==
    /\ pc = "returned"
    /\ Len(X_train) = 3
    /\ batch_size = 2
    /\ Len(minibatches) = 2
    /\ Len(minibatches[2][1]) = 1

\* C7: in every returned minibatch the i-th target row is the target of the
\* dataset index whose example is the i-th input of that minibatch.
C7_SharedPermutation ==
    (pc = "returned" /\ Len(X_train) >= 1) =>
        \A c \in 1..Len(minibatches) :
            \A i \in 1..Len(minibatches[c][1]) :
                \E j \in 1..Len(X_train) :
                    /\ minibatches[c][1][i] = X_train[j]
                    /\ i \in 1..Len(minibatches[c][2])
                    /\ minibatches[c][2][i] = Y_train[j]

\* C7 witness: a shuffle that moved the first example out of first place
C7_Witness ==
    /\ pc = "returned"
    /\ Len(X_train) = 3
    /\ Len(minibatches) >= 1
    /\ minibatches[1][1][1] = X_train[3]
    /\ minibatches[1][2][1] = Y_train[3]

\* C10 (as claimed): on an empty dataset generate_minibatches reports an
\* error to its caller; it neither returns nor faults.
C10_EmptyReportsError ==
    (Len(X_train) = 0 /\ (pc = "returned" \/ status # "running")) => status = "threw"

\* a tensor of B >= 1 examples with the same T >= 1 timesteps each
IsUniform(hs) ==
    /\ Len(hs) >= 1
    /\ Len(hs[1]) >= 1
    /\ \A i \in 1..Len(hs) : Len(hs[i]) = Len(hs[1])

\* C8 (amended): after 3D->2D then 2D->3D on a (B,T,F) tensor, the result
\* has B examples, each with as many timesteps as the first example of the
\* x_train stored by init_data, and each of them is the final-timestep
\* vector of that example of the input.
C8_Broadcast ==
    (pc = "returned" /\ IsUniform(hidden_state)) =>
        /\ Len(reshaped_tensor) = Len(hidden_state)
        /\ \A i \in 1..Len(reshaped_tensor) :
              /\ Len(reshaped_tensor[i]) = Len(x_train.val[1])
              /\ \A s \in 1..Len(reshaped_tensor[i]) :
                    reshaped_tensor[i][s] = hidden_state[i][Len(hidden_state[i])]

\* C8 witness: two examples of two timesteps whose last timestep differs
\* from the first, broadcast over the one timestep of x_train
C8_Witness ==
    /\ pc = "returned"
    /\ hidden_state = << <<(<<0>>), (<<1>>)>>, <<(<<1>>), (<<0>>)>> >>
    /\ Len(x_train.val[1]) = 1
    /\ reshaped_tensor = << <<(<<1>>)>>, <<(<<0>>)>> >>

\* C8 (as claimed): the result has the T timesteps of the input tensor
C8_BroadcastOverInputTimesteps ==
    (pc = "returned" /\ IsUniform(hidden_state)) =>
        /\ Len(reshaped_tensor) = Len(hidden_state)
        /\ \A i \in 1..Len(reshaped_tensor) :
              /\ Len(reshaped_tensor[i]) = Len(hidden_state[i])
              /\ \A s \in 1..Len(reshaped_tensor[i]) :
                    reshaped_tensor[i][s] = hidden_state[i][Len(hidden_state[i])]

\* ======================================================================
\* Claims on the training step
\* ======================================================================
\* the run of the end-to-end scenario
IsScenario ==
    /\ X_train = Scenario.X
    /\ main_layer_types = Scenario.types
    /\ main_layer_dims = Scenario.dims
    /\ batch_size = Scenario.batch

\* the keys of the trainable parameters of layer l
TrainableKeys(l) == {<<nm, l>> : nm \in ParamNames(At(layer_types, l - 1))}

\* C1: in the end-to-end scenario (4 examples, 3 timesteps, 2 features,
\* [LSTM(4), Linear(1)], batch size 4) the training step does not fail,
\* the final prediction it computes has shape (4,1), the loss is a
\* non-negative number and the parameter shapes after optimize are those
\* initialize_network gave them.
C1_EndToEnd ==
    IsScenario =>
        /\ status = "running"
        /\ pc \in {"loss", "back_prop", "optimize", "return_avg_loss"} =>
              Transposed(finalPrediction.shape) = <<4, 1>>
        /\ accumulated_loss[1] >= 0 /\ accumulated_loss[2] > 0
        /\ pc = "return_avg_loss" =>
              \A l \in 1..Len(layer_params) : \A k \in TrainableKeys(l) :
                  Get(layer_params[l], k) = Get(current_params(l), k)

\* C2: once a complete forward_prop + back_prop pass has returned (the
\* driver is about to call optimize), layer_types, layer_dims,
\* layer_params, the cache and the gradients all have L entries.
C2_Lengths ==
    pc = "optimize" =>
        /\ Len(layer_dims) = Len(layer_types)
        /\ Len(layer_params) = Len(layer_types)
        /\ Len(cache) = Len(layer_types)
        /\ Len(grads) = Len(layer_types)

\* C3: whatever the outcome of an optimize call, every trainable parameter
\* matrix of every layer has after the call the shape it had before it.
C3_ShapePreserving ==
    [][pc = "optimize" =>
          /\ Len(layer_params') = Len(layer_params)
          /\ \A l \in 1..Len(layer_params) : \A k \in TrainableKeys(l) :
                /\ k \in DOMAIN layer_params[l]
                /\ k \in DOMAIN layer_params'[l]
                /\ layer_params'[l][k] = layer_params[l][k]]_vars

\* an optimize call has returned after writing into a parameter dictionary
C3_Witness ==
    /\ pc = "return_avg_loss"
    /\ t = 1
    /\ \E l \in 1..Len(layer_params) : DOMAIN layer_params[l] # DOMAIN current_params(l)

\* C4: the first optimize call, and every later one, corrects the bias with
\* t >= 1, so that 1 - beta1^t and 1 - beta2^t are not zero.
C4_FirstStepIsOne ==
    /\ pc = "optimize" => ~BiasDenominatorIsZero(t)
    /\ \A used \in t_used : ~BiasDenominatorIsZero(used[2])

\* C5: every optimize invocation increases t by exactly one, and all the
\* bias corrections of the invocation use the value t had on entry (so
\* that k invocations increase t by k).
C5_StepCounter ==
    [][pc = "optimize" => (t' = t + 1 /\ \A used \in t_used' : used[2] = t)]_vars

\* C9: the average reported at the end of an epoch is the accumulated loss
\* divided by the dataset's example count, and the accumulator holds only
\* that epoch's losses: it is zero again when the next epoch starts.
C9_PerEpochAverage ==
    pc = "generate" =>
        /\ accumulated_loss = Zero
        /\ epoch >= 1 => avg_loss = RatDivInt(accumulated_loss, Len(X_train))

\* ======================================================================
\* Claims on the layers' inputs, the cache and the gradients
\* ======================================================================
\* C11: on a tensor of at least one example the Tensor3D -> Matrix
\* conversion ends with an exception exactly when some example (the first
\* included) has no timestep, and otherwise returns each example's
\* final-timestep feature vector.
C11_EmptyTimestepsRaise ==
    LET someEmpty == \E i \in 1..Len(hidden_state) : Len(hidden_state[i]) = 0
    IN  Len(hidden_state) >= 1 =>
        /\ (pc = "to2d" /\ status # "running") => (someEmpty /\ status = "threw")
        /\ pc \in {"to3d", "returned"} =>
              /\ ~someEmpty
              /\ reshaped_matrix = [i \in 1..Len(hidden_state) |-> Back(hidden_state[i])]

\* C12: every feed-forward layer's cache entry shows the input the layer was
\* given: the last-timestep slice of the hidden state of the LSTM layer just
\* before it, or else the output of the feed-forward layer just before it.
C12_FeedForwardInput ==
    \A p \in 1..Len(cache) :
        cache[p].tag = "matrixDict" =>
            cache[p].input = IF At(layer_types, cache[p].layer - 2) = "LSTM"
                             THEN <<"last_timestep", cache[p].layer - 1>>
                             ELSE <<"Dense", cache[p].layer - 1>>

\* C13: when back_prop has returned, its seed gradient was computed from the
\* activation of the last layer recorded by this minibatch's forward_prop,
\* from this minibatch's targets and from this minibatch's example count.
C13_SeedGradient ==
    pc = "optimize" =>
        /\ dA_matrix.prediction = [layer |-> Len(layer_types), of |-> <<epoch, batch_index>>]
        /\ dA_matrix.target = Y_batch
        /\ dA_matrix.divisor = Len(X_batch)

\* C14: when back_prop has returned, the gradient sequence holds the
\* parameter gradients of the last layer (always a feed-forward layer here).
C14_LastLayerGradients ==
    pc = "optimize" =>
        \E p \in 1..Len(grads) :
            /\ grads[p].layer = Len(layer_types)
            /\ grads[p].tag = "matrixDict"

\* the last LSTM layer: the one whose next layer is feed-forward
LastLSTM == CHOOSE i \in 1..Len(layer_types) :
                layer_types[i] = "LSTM" /\ layer_types[i + 1] # "LSTM"

\* C15: when back_prop has returned, the LSTM layer that is followed by a
\* feed-forward layer has had its backward step, and the gradient tensor
\* that step was given is not empty: one slice per timestep of the
\* minibatch for each of its examples.
C15_GradientBroadcast ==
    pc = "optimize" =>
        \E p \in 1..Len(grads) :
            /\ grads[p].tag = "gradientDict"
            /\ grads[p].layer = LastLSTM
            /\ grads[p].da.shape[1] = Len(X_batch)
            /\ grads[p].da.shape[2] = Len(X_batch[1])
            /\ grads[p].da.shape[3] >= 1

\* C16: whenever a forward pass has returned, the first one or a later one,
\* the cache has L entries and the entry at position i-1 is the one that
\* pass produced for layer i.
C16_CacheInPlace ==
    pc = "loss" =>
        /\ Len(cache) = Len(layer_types)
        /\ \A i \in 1..Len(cache) :
              /\ At(cache, i - 1).layer = i
              /\ At(cache, i - 1).of = <<epoch, batch_index>>

\* C17: whenever a forward+backward cycle has returned, the first one or a
\* later one, the gradient sequence has exactly L entries and each was
\* computed from the cache of that cycle.
C17_GradsInPlace ==
    pc = "optimize" =>
        /\ Len(grads) = Len(layer_types)
        /\ \A p \in 1..Len(grads) : grads[p].cache.of = <<epoch, batch_index>>

\* C18: an optimize call that returns leaves in Adam_params, for every
\* layer, moments that hold one more step than before the call (the next
\* call does not start again from the zeros of init_Adam).
C18_MomentsStored ==
    [][(pc = "optimize" /\ pc' # "stopped") =>
          /\ Len(Adam_params') = Len(Adam_params)
          /\ \A l \in 1..Len(Adam_params) :
                Adam_params'[l][3] = Adam_params[l][3] + 1]_vars

\* C19: every cache entry back_prop looked at to compute the gradients of a
\* layer l is the entry forward_prop recorded for layer l, and its tag is
\* the one of layer l's type.
C19_CacheEntryOfLayer ==
    \A read \in cache_reads :
        /\ read[2] = read[1]
        /\ read[3] = IF At(layer_types, read[1] - 1) = "LSTM" THEN "LSTMCache"
                     ELSE "matrixDict"

\* C20: in every optimize call, for every layer l the moments read are the
\* ones init_Adam stored for layer l, the gradient entry read is the one
\* back_prop stored for layer l, and the call leaves every parameter
\* dictionary with exactly the keys it had.
C20_OwnLayerEntries ==
    [][pc = "optimize" =>
          /\ \A l \in 1..Len(layer_types) :
                /\ MomentsAt(l) = {Ok(At(Adam_params, l - 1))}
                /\ InBounds(grads, l - 1)
                /\ At(grads, l - 1).layer = l
                /\ GradMapAt(grads, l) = {Ok(At(grads, l - 1).dict)}
          /\ \A l \in 1..Len(layer_params) :
                DOMAIN layer_params'[l] = DOMAIN layer_params[l]]_vars

\* C21: the accesses with which each call of a training cycle begins, which
\* no earlier failure of the call can prevent, are inside the bounds of the
\* sequence they index and request the alternative that is stored:
\* forward_prop's first cache write (line 242), back_prop's read of the last
\* layer's cache entry (line 353), and optimize's reads of the moments and
\* of the gradients for l = 1 (lines 477-478 and 484).
C21_AccessesValid ==
    /\ pc = "forward_prop" =>
          /\ InBounds(layer_types, 0) /\ InBounds(layer_params, 0)
          /\ Len(cache) = Len(layer_types) => InBounds(cache, CacheSlot(1))
    /\ pc = "back_prop" =>
          /\ InBounds(cache, Len(layer_types) - 1)
          /\ At(cache, Len(layer_types) - 1).tag = "matrixDict"
    /\ pc = "optimize" =>
          /\ MomentsAt(1) = {Ok(At(Adam_params, 1))}
          /\ InBounds(grads, 0)
          /\ At(grads, 0).tag = "gradientDict"

====
